---- MODULE Spec2Model ----
(***************************************************************************)
(* Model of python/vyos/utils/system.py: sysctl_read, sysctl_write and     *)
(* sysctl_apply, run against a kernel tunable store through the external   *)
(* command executor (subprocess.run).                                      *)
(*                                                                         *)
(* One step of the model is one call of the executor together with the     *)
(* Python code that runs after it up to the next executor call: the        *)
(* executor calls are the only places where a caller touches shared state. *)
(***************************************************************************)
EXTENDS Integers, Sequences, FiniteSets, TLC

\* ------------------------------------------------------------------ bounds
NumKeys == 3        \* tunable keys 1..NumKeys; a tunable set holds at most NumKeys keys
MaxInt == 10        \* integer arguments of a direct write are 0..MaxInt

Procs == {1, 2}     \* callers; the second one is idle unless the run is concurrent
Keys == 1..NumKeys

\* Values the kernel stores for an existing key, and the marker of a key that
\* does not exist (the query and the set-request on it exit non-zero).
KernelVals == {"0", "1"}
NoSuchKey == "<no such key>"

\* ------------------------------------------------------------------ values
\* A Python value of type str | int.
StrV(s) == [isStr |-> TRUE, s |-> s, n |-> 0]
IntV(n) == [isStr |-> FALSE, s |-> "", n |-> n]

Digit(d) ==
  CASE d = 0 -> "0" [] d = 1 -> "1" [] d = 2 -> "2" [] d = 3 -> "3" [] d = 4 -> "4"
    [] d = 5 -> "5" [] d = 6 -> "6" [] d = 7 -> "7" [] d = 8 -> "8" [] d = 9 -> "9"

\* str(n) of a Python int: its decimal digits, with a sign.
RECURSIVE Str(_)
Str(n) ==
  IF n < 0 THEN "-" \o Str(-n)
  ELSE IF n < 10 THEN Digit(n)
  ELSE Str(n \div 10) \o Digit(n % 10)

\* system.py:42-43   if not isinstance(value, str): value = str(value)
\* (ToStrNoConversion: the faulty variant that compares the value unconverted.)
ToStrNoConversion(value) == value.s
ToStr(value) == IF value.isStr THEN value.s ELSE Str(value.n)

\* ---------------------------------------------------------------- executor
\* What run([...]) can do: raise (the process cannot be started), or end with
\* an exit status and captured output.
Completed(rc, out, stored) ==
  [raised |-> FALSE, returncode |-> rc, stdout |-> out, stored |-> stored]
Raised(stored) ==
  [raised |-> TRUE, returncode |-> 0, stdout |-> "", stored |-> stored]

\* run(['sysctl', '-nb', name], capture_output=True)
RunQuery(kern, name) ==
  { Raised(kern[name]),
    IF kern[name] = NoSuchKey
      THEN Completed(255, "", kern[name])
      ELSE Completed(0, kern[name], kern[name]) }

\* run(['sysctl', '-wq', f'{name}={value}']): the kernel rejects the request
\* (non-zero exit, nothing stored), stores the value, or stores another value
\* than the one requested and still exits with zero.
RunSet(kern, name, value) ==
  { Raised(kern[name]) } \cup
  ( IF kern[name] = NoSuchKey
      THEN { Completed(255, "", kern[name]) }
      ELSE { Completed(255, "", kern[name]) } \cup
           { Completed(0, "", w) : w \in KernelVals \cup {value} } )

\* system.py:19-29 sysctl_read: run() without check=True, so an exit status is
\* never inspected; an exception of run() is not caught. The result is the
\* decoded standard output (of the ASCII values modelled here: the same text).
\* (sysctl_read_checked: the variant with check=True, which the code is not.)
sysctl_read_checked(tmp) ==
  [raised |-> tmp.raised \/ tmp.returncode # 0, value |-> tmp.stdout]
sysctl_read(tmp) == [raised |-> tmp.raised, value |-> tmp.stdout]

\* system.py:45   if sysctl_read(name) == value: return True
\* (AlwaysConfigured: the faulty variant that skips the comparison.)
AlwaysConfigured(current, value) == TRUE
AlreadyConfigured(current, value) == current = value

\* system.py:48   if run([...]).returncode != 0: return False
\* (CallNeverFailed: the faulty variant that ignores the exit status.)
CallNeverFailed(returncode) == FALSE
CallFailed(returncode) == returncode # 0

\* system.py:53   if sysctl_read(name) == value: return True
\* (AppliedUnverified: the faulty variant that trusts the exit status.)
AppliedUnverified(current, value) == TRUE
Applied(current, value) == current = value

\* system.py:77   sysctl_apply(sysctl_original, revert=False)
\* (RevertArgTrue: the faulty variant that lets the rollback roll back.)
RevertArgTrue == TRUE
RevertArg == FALSE

\* ------------------------------------------------------------------- state
VARIABLES
  kernel,   \* the kernel's tunable store: key -> stored value, or NoSuchKey
  call,     \* per caller: the call it makes (fixed at the start)
  pc,       \* per caller: "idle", "ready", "running", "returned", "raised"
  ret,      \* per caller: the boolean returned, meaningful when pc = "returned"
  stack,    \* per caller: the active sysctl_apply frames, outermost first
  wr,       \* per caller: the active sysctl_write frame
  log,      \* per caller: history of the call (kept when audit is on)
  dirty,    \* per caller and key: another caller sent a set-request on the
            \* key after this caller's last read of it
  audit     \* whether the history is recorded

vars == <<kernel, call, pc, ret, stack, wr, log, dirty, audit>>

NoWrite == [active |-> FALSE, name |-> 0, value |-> "", arg |-> StrV(""), at |-> "none"]
NoCall == [op |-> "none", dict |-> <<>>, revert |-> FALSE, name |-> 0, value |-> StrV("")]

\* A history event. t: "apply" (call of sysctl_apply, ok = revert), "read"
\* (query sent; v = value returned), "write" (call of sysctl_write, arg = the
\* value passed), "set" (set-request sent, v = value sent), "write_ret" and
\* "apply_ret" (ok = the boolean returned). d: number of sysctl_apply frames
\* active. rc: exit status of the executor call, -1 when the executor raised.
Ev(t, d, k, v, rc, ok, arg) ==
  [t |-> t, d |-> d, k |-> k, v |-> v, rc |-> rc, ok |-> ok, arg |-> arg]

Note(L, e) == IF audit THEN [L EXCEPT !.log = Append(@, e)] ELSE L

Rc(tmp) == IF tmp.raised THEN -1 ELSE tmp.returncode

\* An exception of the executor: no frame of this module catches it.
Propagate(L) == [L EXCEPT !.pc = "raised", !.stack = <<>>, !.wr = NoWrite]

\* system.py:78-80 return of a sysctl_apply frame. The return of the nested
\* call (line 77) is discarded and the caller's frame returns False (line 78).
\* (ApplyReturnNested: the faulty variant that returns the nested call's result.)
ApplyReturnNested(L, r) ==
  LET d == Len(L.stack)
      L1 == Note([L EXCEPT !.stack = SubSeq(L.stack, 1, d - 1)],
                 Ev("apply_ret", d, 0, "", 0, r, StrV("")))
      L2 == Note([L1 EXCEPT !.stack = <<>>],
                 Ev("apply_ret", 1, 0, "", 0, r, StrV("")))
  IN IF d = 1
       THEN [L1 EXCEPT !.pc = "returned", !.ret = r]
       ELSE [L2 EXCEPT !.pc = "returned", !.ret = r]
RECURSIVE ApplyReturn(_, _)
ApplyReturn(L, r) ==
  LET d == Len(L.stack)
      L1 == Note([L EXCEPT !.stack = SubSeq(L.stack, 1, d - 1)],
                 Ev("apply_ret", d, 0, "", 0, r, StrV("")))
  IN IF d = 1
       THEN [L1 EXCEPT !.pc = "returned", !.ret = r]
       ELSE ApplyReturn(L1, FALSE)

\* system.py:31-43 entry of sysctl_write, up to its first read.
WriteCall(L, name, value) ==
  Note([L EXCEPT !.wr = [active |-> TRUE, name |-> name, value |-> ToStr(value),
                         arg |-> value, at |-> "read"]],
       Ev("write", Len(L.stack), name, "", 0, TRUE, value))

\* system.py:58-72 entry of sysctl_apply, up to its first snapshot read.
\* With an empty dictionary both loops are skipped and True is returned.
sysctl_apply(L, sysctl_dict, revert) ==
  LET f == [dict |-> sysctl_dict, revert |-> revert, original |-> <<>>]
      L1 == Note([L EXCEPT !.stack = Append(@, f)],
                 Ev("apply", Len(L.stack) + 1, 0, "", 0, revert, StrV("")))
  IN IF sysctl_dict = <<>> THEN ApplyReturn(L1, TRUE) ELSE L1

\* system.py:71-72 the snapshot loop has read every key of the dictionary.
\* (SnapshotAfterFirst: the faulty variant that stops after the first key.)
SnapshotAfterFirst(f) == Len(f.original) >= 1
SnapshotComplete(f) == Len(f.original) = Len(f.dict)

\* system.py:77 the dictionary handed to the nested call.
\* (RollbackRequested: the faulty variant that hands over the new values.)
RollbackRequested(f) == f.dict
RollbackDict(f) == f.original

\* system.py:76-78 a write of the loop returned False: roll back if asked to,
\* and return False.
\* (WriteFailedNoRollback: the faulty variant that never rolls back.)
WriteFailedNoRollback(L, f) == ApplyReturn(L, FALSE)
WriteFailed(L, f) ==
  IF f.revert
    THEN sysctl_apply(L, RollbackDict(f), RevertArg)
    ELSE ApplyReturn(L, FALSE)

\* system.py:74-80 the loop of sysctl_apply after sysctl_write returned r for
\* the key at position i; and the return of a direct sysctl_write call.
WriteReturn(L, r) ==
  LET d == Len(L.stack)
      L1 == Note([L EXCEPT !.wr = NoWrite],
                 Ev("write_ret", d, L.wr.name, L.wr.value, 0, r, L.wr.arg))
  IN IF d = 0
       THEN [L1 EXCEPT !.pc = "returned", !.ret = r]
       ELSE LET f == L1.stack[d]
                i == CHOOSE n \in 1..Len(f.dict) : f.dict[n][1] = L.wr.name
            IN IF r
                 THEN IF i < Len(f.dict)
                        THEN WriteCall(L1, f.dict[i + 1][1], f.dict[i + 1][2])
                        ELSE ApplyReturn(L1, TRUE)
                 ELSE WriteFailed(L1, f)

Local(p) == [stack |-> stack[p], wr |-> wr[p], pc |-> pc[p], ret |-> ret[p], log |-> log[p]]

Install(p, L) ==
  /\ stack' = [stack EXCEPT ![p] = L.stack]
  /\ wr' = [wr EXCEPT ![p] = L.wr]
  /\ pc' = [pc EXCEPT ![p] = L.pc]
  /\ ret' = [ret EXCEPT ![p] = L.ret]
  /\ log' = [log EXCEPT ![p] = L.log]

\* The caller read key k: later set-requests of others are news to it again.
Seen(p, k) == [dirty EXCEPT ![p][k] = FALSE]
\* The caller sent a set-request on key k.
Touched(p, k) == [q \in Procs |-> IF q = p THEN dirty[q] ELSE [dirty[q] EXCEPT ![k] = TRUE]]

\* ----------------------------------------------------------------- actions
\* The caller enters its call: sysctl_apply(dict, revert) or sysctl_write(name, value).
Call(p) ==
  /\ pc[p] = "ready"
  /\ LET L0 == [Local(p) EXCEPT !.pc = "running"]
     IN Install(p, IF call[p].op = "apply"
                     THEN sysctl_apply(L0, call[p].dict, call[p].revert)
                     ELSE WriteCall(L0, call[p].name, call[p].value))
  /\ UNCHANGED <<kernel, call, dirty, audit>>

\* system.py:71-72 one snapshot read; after the last one the write loop starts
\* (line 74-75) with the call of sysctl_write for the first key.
SnapshotRead(p) ==
  /\ pc[p] = "running" /\ stack[p] # <<>> /\ ~wr[p].active
  /\ LET d == Len(stack[p])
         f == stack[p][d]
         key_name == f.dict[Len(f.original) + 1][1]
     IN \E tmp \in RunQuery(kernel, key_name) :
          LET rd == sysctl_read(tmp)
              L1 == Note(Local(p), Ev("read", d, key_name, rd.value, Rc(tmp), TRUE, StrV("")))
              g == [f EXCEPT !.original = Append(@, <<key_name, StrV(rd.value)>>)]
              L2 == [L1 EXCEPT !.stack[d] = g]
          IN /\ Install(p, IF rd.raised THEN Propagate(L1)
                           ELSE IF SnapshotComplete(g)
                             THEN WriteCall(L2, g.dict[1][1], g.dict[1][2])
                             ELSE L2)
             /\ dirty' = Seen(p, key_name)
  /\ UNCHANGED <<kernel, call, audit>>

\* system.py:45 the first read of sysctl_write and the comparison.
WriteRead(p) ==
  /\ pc[p] = "running" /\ wr[p].active /\ wr[p].at = "read"
  /\ \E tmp \in RunQuery(kernel, wr[p].name) :
       LET rd == sysctl_read(tmp)
           L1 == Note(Local(p), Ev("read", Len(stack[p]), wr[p].name, rd.value,
                                   Rc(tmp), TRUE, StrV("")))
       IN Install(p, IF rd.raised THEN Propagate(L1)
                     ELSE IF AlreadyConfigured(rd.value, wr[p].value)
                       THEN WriteReturn(L1, TRUE)
                       ELSE [L1 EXCEPT !.wr.at = "set"])
  /\ dirty' = Seen(p, wr[p].name)
  /\ UNCHANGED <<kernel, call, audit>>

\* system.py:48 the set-request and the check of its exit status.
WriteSet(p) ==
  /\ pc[p] = "running" /\ wr[p].active /\ wr[p].at = "set"
  /\ \E tmp \in RunSet(kernel, wr[p].name, wr[p].value) :
       LET L1 == Note(Local(p), Ev("set", Len(stack[p]), wr[p].name, wr[p].value,
                                   Rc(tmp), TRUE, StrV("")))
       IN /\ kernel' = [kernel EXCEPT ![wr[p].name] = tmp.stored]
          /\ Install(p, IF tmp.raised THEN Propagate(L1)
                        ELSE IF CallFailed(tmp.returncode)
                          THEN WriteReturn(L1, FALSE)
                          ELSE [L1 EXCEPT !.wr.at = "reread"])
  /\ dirty' = Touched(p, wr[p].name)
  /\ UNCHANGED <<call, audit>>

\* system.py:53-56 the verification read of sysctl_write.
WriteReread(p) ==
  /\ pc[p] = "running" /\ wr[p].active /\ wr[p].at = "reread"
  /\ \E tmp \in RunQuery(kernel, wr[p].name) :
       LET rd == sysctl_read(tmp)
           L1 == Note(Local(p), Ev("read", Len(stack[p]), wr[p].name, rd.value,
                                   Rc(tmp), TRUE, StrV("")))
       IN Install(p, IF rd.raised THEN Propagate(L1)
                     ELSE WriteReturn(L1, Applied(rd.value, wr[p].value)))
  /\ dirty' = Seen(p, wr[p].name)
  /\ UNCHANGED <<kernel, call, audit>>

Next ==
  \E p \in Procs :
    \/ Call(p)
    \/ SnapshotRead(p)
    \/ WriteRead(p)
    \/ WriteSet(p)
    \/ WriteReread(p)

\* ------------------------------------------------------------ initial states
\* Values a caller asks for: the stored values and the empty string.
RequestVals == KernelVals \cup {""}

\* Values asked for in the tunable set of the single caller: the empty string
\* (what a missing key reads as) and one stored value. With the three initial
\* values of a key this gives every case of a key: equal, different, missing.
SetVals == {"", "1"}

\* The tunable sets over the keys 1..n in this order (keys are opaque, so the
\* choice of names loses nothing; the order is the caller's insertion order).
Dicts(maxLen, vals) ==
  UNION { { [i \in 1..n |-> <<i, StrV(v[i])>>] : v \in [1..n -> vals] }
          : n \in 0..maxLen }

ApplyCalls(maxLen, vals) ==
  { [op |-> "apply", dict |-> d, revert |-> r, name |-> 0, value |-> StrV("")]
      : d \in Dicts(maxLen, vals), r \in BOOLEAN }

WriteCalls ==
  { [op |-> "write", dict |-> <<>>, revert |-> FALSE, name |-> 1, value |-> v]
      : v \in { StrV(s) : s \in RequestVals } \cup { IntV(n) : n \in 0..MaxInt } }

\* The keys a call names.
CallKeys(c) == IF c.op = "write" THEN {c.name} ELSE { c.dict[i][1] : i \in 1..Len(c.dict) }

InitLocal ==
  /\ pc = [p \in Procs |-> IF call[p].op = "none" THEN "idle" ELSE "ready"]
  /\ ret = [p \in Procs |-> FALSE]
  /\ stack = [p \in Procs |-> <<>>]
  /\ wr = [p \in Procs |-> NoWrite]
  /\ log = [p \in Procs |-> <<>>]
  /\ dirty = [p \in Procs |-> [k \in Keys |-> FALSE]]

\* One caller, running alone; keys the call does not name are left at "0".
Init ==
  /\ call \in [Procs -> ApplyCalls(NumKeys, SetVals) \cup WriteCalls \cup {NoCall}]
  /\ call[1] # NoCall /\ call[2] = NoCall
  /\ kernel \in [Keys -> KernelVals \cup {NoSuchKey}]
  /\ \A k \in Keys \ CallKeys(call[1]) : kernel[k] = "0"
  /\ audit = TRUE
  /\ InitLocal

Spec == Init /\ [][Next]_vars

\* Two callers whose calls both name key 1, running concurrently.
InitConc ==
  /\ call \in [Procs -> ApplyCalls(1, RequestVals) \cup WriteCalls]
  /\ \A p \in Procs : 1 \in CallKeys(call[p])
  /\ kernel \in [Keys -> KernelVals \cup {NoSuchKey}]
  /\ \A k \in Keys \ {1} : kernel[k] = "0"
  /\ audit = FALSE
  /\ InitLocal

SpecConc == InitConc /\ [][Next]_vars

\* =================================================================== claims
\* Vocabulary of the claims, over the history of caller 1 (the caller of Spec).
lg == log[1]
D == call[1].dict
IsApply == call[1].op = "apply"
Returned == pc[1] = "returned"
KeyAt(n) == D[n][1]
PosOf(k) == CHOOSE n \in 1..Len(D) : KeyAt(n) = k

\* The string form of a requested value: the string itself, or the decimal
\* digits of an integer.
DecimalString(value) == IF value.isStr THEN value.s ELSE Str(value.n)

\* What a query of key k reports now.
ReadsAs(k) == IF kernel[k] = NoSuchKey THEN "" ELSE kernel[k]

Is(i, t, d) == lg[i].t = t /\ lg[i].d = d

\* The value the outer call's snapshot holds for the n-th key (the snapshot
\* reads follow the call event).
Snap(n) == lg[1 + n].v

\* The history positions where a write of the outer call returned False.
Failure1 == { i \in DOMAIN lg : Is(i, "write_ret", 1) /\ ~lg[i].ok }

\* The positions of the keys whose write by the outer call returned True.
Written1 == { n \in 1..Len(D) :
                \E j \in DOMAIN lg : Is(j, "write_ret", 1) /\ lg[j].k = KeyAt(n) /\ lg[j].ok }

\* The n-th key's rollback write was attempted / returned True.
RollbackTried(n) == \E i \in DOMAIN lg : Is(i, "write", 2) /\ lg[i].k = KeyAt(n)
RollbackDone(n) ==
  \E i \in DOMAIN lg : Is(i, "write_ret", 2) /\ lg[i].k = KeyAt(n) /\ lg[i].ok

\* The rollback has been entered and has sent no set-request yet.
RollbackStarting ==
  /\ Len(stack[1]) = 2
  /\ ~\E i \in DOMAIN lg : Is(i, "set", 2)

\* C1 (as stated): apply(set, revert=true) run alone: when a write fails after
\* earlier keys were written, every earlier key is back at its snapshot value
\* when the call has returned, and the call returned false.
C1_RollbackRestoresAll ==
  (IsApply /\ call[1].revert /\ Returned /\ Failure1 # {}) =>
    /\ ~ret[1]
    /\ \A n \in Written1 : ReadsAs(KeyAt(n)) = Snap(n)

\* C1 (amended): apply(set, revert=true) run alone, a write failing after
\* earlier keys were written: when the rollback starts every earlier key holds
\* its new value; every rollback write carries the key's snapshot value; a key
\* whose rollback write returned true holds its snapshot value when the call
\* has returned (a key whose rollback write failed or was not attempted need
\* not); and a call that returns, returns false.
C1_RollbackBestEffort ==
  (IsApply /\ call[1].revert /\ Failure1 # {}) =>
    /\ RollbackStarting =>
         \A n \in Written1 : ReadsAs(KeyAt(n)) = DecimalString(D[n][2])
    /\ \A i \in DOMAIN lg :
         Is(i, "write", 2) => lg[i].arg = StrV(Snap(PosOf(lg[i].k)))
    /\ Returned =>
         /\ ~ret[1]
         /\ \A n \in Written1 : RollbackDone(n) => ReadsAs(KeyAt(n)) = Snap(n)

\* C1 witness: the second key's write failed after the first key was changed
\* by a set-request, and the rollback put the first key back.
C1_Witness ==
  /\ IsApply /\ call[1].revert /\ Returned /\ Failure1 # {}
  /\ 1 \in Written1 /\ RollbackDone(1)
  /\ \E i \in DOMAIN lg : Is(i, "set", 1) /\ lg[i].k = KeyAt(1)
  /\ \E i \in DOMAIN lg : Is(i, "set", 2) /\ lg[i].k = KeyAt(1)
  /\ ReadsAs(KeyAt(1)) = Snap(1)
  /\ Snap(1) # DecimalString(D[1][2])

C3_WriteVerified ==
  /\ \A j \in DOMAIN lg :
       (lg[j].t = "write_ret" /\ lg[j].ok) =>
         /\ lg[j - 1].t = "read" /\ lg[j - 1].k = lg[j].k
         /\ lg[j - 1].v = DecimalString(lg[j].arg)
  /\ \A i \in DOMAIN lg :
       (lg[i].t = "set" /\ lg[i].rc > 0) =>
         /\ i + 1 <= Len(lg)
         /\ lg[i + 1].t = "write_ret" /\ ~lg[i + 1].ok
  /\ \A i \in DOMAIN lg :
       ( /\ lg[i].t = "set" /\ lg[i].rc = 0
         /\ i + 1 <= Len(lg)
         /\ lg[i + 1].rc # -1 /\ lg[i + 1].v # lg[i].v ) =>
           /\ lg[i + 1].t = "read"
           /\ i + 2 <= Len(lg)
           /\ lg[i + 2].t = "write_ret" /\ ~lg[i + 2].ok

\* C3 witness: a set-request exited with zero, the re-read gave another value
\* than the one sent, and the write returned False.
C3_Witness ==
  \E i \in DOMAIN lg :
    /\ lg[i].t = "set" /\ lg[i].rc = 0
    /\ i + 2 <= Len(lg)
    /\ lg[i + 1].t = "read" /\ lg[i + 1].rc = 0 /\ lg[i + 1].v # lg[i].v
    /\ lg[i + 2].t = "write_ret" /\ ~lg[i + 2].ok

\* C4: apply returns True exactly when the write of every key of the set
\* returned True; and after apply, run alone, returned True every key of the
\* set reads as the string form of its requested value.
C4_ApplyTrueIffAllWritten ==
  (IsApply /\ Returned) =>
    /\ ret[1] <=> (Written1 = 1..Len(D))
    /\ ret[1] => \A n \in 1..Len(D) : ReadsAs(KeyAt(n)) = DecimalString(D[n][2])

\* C4 witness: apply of a set of NumKeys keys returned True after sending a
\* set-request for every key.
C4_Witness ==
  /\ IsApply /\ Returned /\ ret[1] /\ Len(D) = NumKeys
  /\ \A n \in 1..Len(D) : \E i \in DOMAIN lg : lg[i].t = "set" /\ lg[i].k = KeyAt(n)

\* The revert flag of the apply call that the event at position i belongs to.
RevertOf(i) ==
  LET a == CHOOSE a \in 1..i :
             /\ Is(a, "apply", lg[i].d)
             /\ \A b \in (a + 1)..i : ~Is(b, "apply", lg[i].d)
  IN lg[a].ok

\* C5: in an apply call with revert=false (the caller's, or the nested
\* rollback call) a failed write is followed by nothing but returns of False:
\* no read, no set-request, no write of a later key, no nested apply, and the
\* caller gets False. The nested call always has revert=false and no call is
\* nested deeper.
C5_NoRevertShortCircuit ==
  /\ \A i \in DOMAIN lg :
       (lg[i].t = "write_ret" /\ lg[i].d >= 1 /\ ~lg[i].ok /\ ~RevertOf(i)) =>
         /\ \A j \in (i + 1)..Len(lg) : lg[j].t = "apply_ret" /\ ~lg[j].ok
         /\ Returned /\ ~ret[1]
  /\ \A i \in DOMAIN lg :
       lg[i].t = "apply" => /\ lg[i].d <= 2
                            /\ lg[i].d = 2 => ~lg[i].ok

\* C5 witness: apply(revert=false) of two or more keys returned False after
\* the write of its first key failed on the set-request.
C5_Witness ==
  /\ IsApply /\ ~call[1].revert /\ Len(D) >= 2 /\ Returned /\ ~ret[1]
  /\ \E i \in DOMAIN lg : Is(i, "write_ret", 1) /\ lg[i].k = KeyAt(1) /\ ~lg[i].ok
  /\ \E i \in DOMAIN lg : Is(i, "set", 1) /\ lg[i].k = KeyAt(1)

\* C6: in every apply call (the caller's and the nested one) a set-request is
\* sent only after the snapshot reads of all keys of the set, made in the
\* set's order right after the call; and a rollback write carries the value
\* the caller's snapshot read returned for its key.
C6_SnapshotBeforeWrites ==
  /\ \A a \in DOMAIN lg :
       lg[a].t = "apply" =>
         \A s \in (a + 1)..Len(lg) :
           lg[s].t = "set" =>
             \A n \in 1..Len(D) :
               /\ a + n < s
               /\ Is(a + n, "read", lg[a].d) /\ lg[a + n].k = KeyAt(n)
  /\ \A i \in DOMAIN lg :
       Is(i, "write", 2) =>
         /\ Is(1 + PosOf(lg[i].k), "read", 1)
         /\ lg[1 + PosOf(lg[i].k)].k = lg[i].k
         /\ lg[i].arg = StrV(lg[1 + PosOf(lg[i].k)].v)

\* C6 witness: a rollback write of a key that a set-request of the batch had
\* changed: its value is the snapshot value, not the one the rollback's own
\* snapshot read found.
C6_Witness ==
  \E i \in DOMAIN lg, j \in DOMAIN lg :
    /\ Is(i, "write", 2) /\ Is(j, "read", 2) /\ j < i
    /\ lg[j].k = lg[i].k /\ lg[j].rc = 0
    /\ lg[i].arg # StrV(lg[j].v)

\* C7 (as stated): when a write fails in apply(set, revert=true), a rollback
\* write of the snapshot value is attempted for every key of the set.
C7_RollbackWritesEveryKey ==
  (IsApply /\ call[1].revert /\ Returned /\ Failure1 # {}) =>
    \A n \in 1..Len(D) : RollbackTried(n)

\* C7 (amended): when a write fails in apply(set, revert=true) and the call
\* returns, exactly one nested apply call was made, with revert=false; it
\* attempted the rollback writes in the set's order, each with the key's
\* snapshot value, up to and including the first key whose rollback write
\* failed, and attempted none for the keys after that one.
C7_RollbackWritesUntilFailure ==
  (IsApply /\ call[1].revert /\ Returned /\ Failure1 # {}) =>
    /\ Cardinality({ i \in DOMAIN lg : Is(i, "apply", 2) /\ ~lg[i].ok }) = 1
    /\ \A i \in DOMAIN lg : lg[i].t = "apply" => i = 1 \/ (lg[i].d = 2 /\ ~lg[i].ok)
    /\ \A n \in 1..Len(D) :
         RollbackTried(n) <=> (\A m \in 1..(n - 1) : RollbackDone(m))
    /\ \A i \in DOMAIN lg :
         Is(i, "write", 2) => lg[i].arg = StrV(Snap(PosOf(lg[i].k)))
    /\ \A i \in DOMAIN lg, j \in DOMAIN lg :
         (Is(i, "write", 2) /\ Is(j, "write", 2) /\ i < j) =>
           PosOf(lg[i].k) < PosOf(lg[j].k)

\* C7 witness: the rollback write of the first key failed and the second key
\* got no rollback write.
C7_Witness ==
  /\ IsApply /\ call[1].revert /\ Returned /\ Failure1 # {} /\ Len(D) >= 2
  /\ RollbackTried(1) /\ ~RollbackDone(1) /\ ~RollbackTried(2)

C9_ReadFailsOnNonZeroExit ==
  \A i \in DOMAIN lg :
    (lg[i].t = "read" /\ lg[i].rc # 0) => (i = Len(lg) /\ pc[1] = "raised")

\* C9 (amended): a read fails, by propagating the exception, exactly when the
\* executor raised; when the query exits non-zero the read returns the
\* (empty) captured output and the call goes on, so a write of the empty
\* string to a key whose query exits non-zero returns True.
C9_ReadFailsOnlyWhenRunRaises ==
  /\ \A i \in DOMAIN lg :
       lg[i].t = "read" =>
         /\ lg[i].rc = -1 => (i = Len(lg) /\ pc[1] = "raised")
         /\ lg[i].rc # -1 => (i < Len(lg) \/ stack[1] # <<>> \/ wr[1].active)
                             /\ ~(i = Len(lg) /\ pc[1] = "raised")
         /\ lg[i].rc > 0 => lg[i].v = ""
  /\ ( /\ call[1].op = "write" /\ DecimalString(call[1].value) = ""
       /\ kernel[call[1].name] = NoSuchKey /\ pc[1] \in {"returned"} ) => ret[1]

\* C9 witness: the write of "" to a key that does not exist returned True
\* after a query that exited non-zero.
C9_Witness ==
  /\ call[1].op = "write" /\ kernel[call[1].name] = NoSuchKey
  /\ Returned /\ ret[1]
  /\ Len(lg) = 3 /\ lg[2].t = "read" /\ lg[2].rc > 0

\* The string form of the value caller p requested for key k.
Requested(p, k) ==
  IF call[p].op = "write" THEN DecimalString(call[p].value)
  ELSE LET n == CHOOSE n \in 1..Len(call[p].dict) : call[p].dict[n][1] = k
       IN DecimalString(call[p].dict[n][2])

\* C10: with two concurrent callers, a call can return True while a key does
\* not hold the value it requested, and this happens only when the other
\* caller sent a set-request on that key after this call's last read of it.
C10_MismatchOnlyByOtherCaller ==
  \A p \in Procs :
    (pc[p] = "returned" /\ ret[p]) =>
      \A k \in CallKeys(call[p]) :
        ReadsAs(k) # Requested(p, k) => dirty[p][k]

\* C10 witness: two apply calls on key 1; one has returned True and key 1 does
\* not hold the value it requested.
C10_Witness ==
  \E p \in Procs :
    /\ \A q \in Procs : call[q].op = "apply" /\ Len(call[q].dict) = 1
    /\ pc[p] = "returned" /\ ret[p]
    /\ ReadsAs(1) # Requested(p, 1)

====
